---- MODULE Spec2Model ----
(***************************************************************************)
(* Model of the NYC taxi ETL pipeline: main.py drives extract.py,          *)
(* transform.py and load.py against a PostgreSQL store.                    *)
(*                                                                         *)
(* A DataFrame is a sequence of rows; a row is a record with the pandas    *)
(* row label ("index") and one cell per column.  A cell is a tagged value  *)
(* [kind, num, str] because pandas columns are dynamically typed:          *)
(*   kind "null"  NaN / NaT / None                                         *)
(*   kind "num"   a number; decimal columns (fare_amount, trip_distance,   *)
(*                cost_per_mile) are held in hundredths, integer columns   *)
(*                in units                                                 *)
(*   kind "str"   a string                                                 *)
(*   kind "ts"    a timestamp, num = seconds since 2019-01-01 00:00:00     *)
(*   kind "date"  a calendar date, num = days since 2019-01-01             *)
(*   kind "inf"   the float infinity a division by zero produces           *)
(* passenger_count stands for the numeric pass-through columns (VendorID,  *)
(* RatecodeID, payment_type, extra, mta_tax, tip_amount, tolls_amount,     *)
(* improvement_surcharge, total_amount, congestion_surcharge): the code    *)
(* touches them only in fillna.                                            *)
(***************************************************************************)
EXTENDS Integers, Sequences, FiniteSets, TLC

VARIABLES pc, error, trip_file, zone_file, df_trips, df_zones, valid,
          store, store_before, i, batch_size, log

vars == <<pc, error, trip_file, zone_file, df_trips, df_zones, valid,
          store, store_before, i, batch_size, log>>

(***************************************************************************)
(* Bounds                                                                  *)
(***************************************************************************)
MaxUnitRows == 2   \* longest collection handed to a function under test
MaxTripRows == 3   \* longest trip file of a pipeline run

(***************************************************************************)
(* Cells                                                                   *)
(***************************************************************************)
Null == [kind |-> "null", num |-> 0, str |-> ""]
Num(n) == [kind |-> "num", num |-> n, str |-> ""]
Str(s) == [kind |-> "str", num |-> 0, str |-> s]
Ts(n) == [kind |-> "ts", num |-> n, str |-> ""]
Date(n) == [kind |-> "date", num |-> n, str |-> ""]
Inf == [kind |-> "inf", num |-> 0, str |-> ""]

isnull(c) == c.kind = "null"

(***************************************************************************)
(* pd.to_datetime on a text column.  A timestamp text "D hh:mm:ss" is      *)
(* looked up for its components <<day offset, hh, mm, ss>>, which are      *)
(* converted to seconds; a missing value becomes NaT; any other text       *)
(* raises and fails the whole call.                                        *)
(***************************************************************************)
TimestampText ==
    ("2019-01-01 00:46:40" :> <<0, 0, 46, 40>>) @@
    ("2019-01-01 00:47:39" :> <<0, 0, 47, 39>>) @@
    ("2019-01-01 00:53:20" :> <<0, 0, 53, 20>>) @@
    ("2019-01-01 23:59:30" :> <<0, 23, 59, 30>>) @@
    ("2019-01-02 00:46:39" :> <<1, 0, 46, 39>>)

parses(c) == isnull(c) \/ (c.kind = "str" /\ c.str \in DOMAIN TimestampText)

to_datetime(c) ==
    IF isnull(c) \/ ~parses(c) THEN Null
    ELSE LET t == TimestampText[c.str]
         IN  Ts(t[1] * 86400 + t[2] * 3600 + t[3] * 60 + t[4])

(***************************************************************************)
(* Element-wise comparisons; a comparison with NaN / NaT is False.         *)
(***************************************************************************)
le(a, b) == a.kind = "ts" /\ b.kind = "ts" /\ a.num <= b.num
gt0(c) == c.kind = "num" /\ c.num > 0

\* variant: the conversion rounds to the nearest integer
astype_int_nearest(n, d) == (2 * n + d) \div (2 * d)

\* float -> int conversion truncates toward zero
astype_int(n, d) == IF n >= 0 THEN n \div d ELSE -((-n) \div d)

\* (dropoff - pickup).dt.total_seconds() / 60, as int
duration_minutes(pickup, dropoff) ==
    IF pickup.kind = "ts" /\ dropoff.kind = "ts"
    THEN Num(astype_int(dropoff.num - pickup.num, 60))
    ELSE Null

\* variant: the quotient is cut after two decimals
round2_floor(n, d) == (100 * n) \div d

\* round(n / d, 2) in hundredths, n / d exact; numpy rounds a tie to the
\* even neighbour
round2(n, d) ==
    LET q == (100 * n) \div d
        r == (100 * n) % d
    IN  IF 2 * r < d THEN q
        ELSE IF 2 * r > d THEN q + 1
        ELSE IF q % 2 = 0 THEN q ELSE q + 1

\* (fare_amount / trip_distance).round(2); float division by zero gives inf
cost_per_mile(fare, distance) ==
    IF fare.kind # "num" \/ distance.kind # "num" THEN Null
    ELSE IF distance.num = 0 THEN (IF fare.num = 0 THEN Null ELSE Inf)
    ELSE IF distance.num > 0 THEN Num(round2(fare.num, distance.num))
    ELSE Num(round2(-fare.num, -distance.num))

pickup_hour(pickup) ==
    IF pickup.kind = "ts" THEN Num((pickup.num \div 3600) % 24) ELSE Null

pickup_date(pickup) ==
    IF pickup.kind = "ts" THEN Date(pickup.num \div 86400) ELSE Null

\* variant: only the numeric columns are filled
fillna_numeric_only(r) ==
    [f \in DOMAIN r |-> IF f \in {"index", "store_and_fwd_flag"} THEN r[f]
                        ELSE IF isnull(r[f]) THEN Num(0) ELSE r[f]]

\* variant: the zone ids are left missing
fillna_keeps_refs(r) ==
    [f \in DOMAIN r |-> IF f \in {"index", "PULocationID", "DOLocationID"}
                        THEN r[f]
                        ELSE IF isnull(r[f]) THEN Num(0) ELSE r[f]]

\* DataFrame.fillna(0): every missing cell of every column becomes the number 0
fillna(r) ==
    [f \in DOMAIN r |-> IF f = "index" THEN r[f]
                        ELSE IF isnull(r[f]) THEN Num(0) ELSE r[f]]

(***************************************************************************)
(* transform_trip_data, step by step                                       *)
(***************************************************************************)
convert_datetimes(r) ==
    [r EXCEPT !.tpep_pickup_datetime = to_datetime(@),
              !.tpep_dropoff_datetime = to_datetime(@)]

\* variant: strict comparison
pickup_before_dropoff(r) ==
    r.tpep_pickup_datetime.kind = "ts" /\ r.tpep_dropoff_datetime.kind = "ts"
    /\ r.tpep_pickup_datetime.num < r.tpep_dropoff_datetime.num


pickup_not_after_dropoff(r) ==
    le(r.tpep_pickup_datetime, r.tpep_dropoff_datetime)

\* variant: only negative values are removed
nonnegative_fare_and_distance(r) ==
    /\ r.fare_amount.kind = "num" /\ r.fare_amount.num > 0
    /\ r.trip_distance.kind = "num" /\ r.trip_distance.num >= 0


positive_fare_and_distance(r) ==
    gt0(r.fare_amount) /\ gt0(r.trip_distance)

add_computed_fields(r) ==
    r @@ [trip_duration_minutes |->
              duration_minutes(r.tpep_pickup_datetime, r.tpep_dropoff_datetime),
          cost_per_mile |-> cost_per_mile(r.fare_amount, r.trip_distance),
          pickup_hour |-> pickup_hour(r.tpep_pickup_datetime),
          pickup_date |-> pickup_date(r.tpep_pickup_datetime)]

Map(F(_), s) == [k \in 1..Len(s) |-> F(s[k])]

\* to_datetime raises when any text of either column does not parse
transform_raises(df) ==
    \E k \in 1..Len(df) : ~parses(df[k].tpep_pickup_datetime)
                          \/ ~parses(df[k].tpep_dropoff_datetime)

transform_trip_data(df) ==
    LET converted == Map(convert_datetimes, df)
        ordered == SelectSeq(converted, pickup_not_after_dropoff)
        positive == SelectSeq(ordered, positive_fare_and_distance)
        computed == Map(add_computed_fields, positive)
    IN  Map(fillna, computed)

(***************************************************************************)
(* validate_data                                                           *)
(***************************************************************************)
has_nulls(df) ==
    \E k \in 1..Len(df) : \E f \in DOMAIN df[k] \ {"index"} : isnull(df[k][f])

\* variant: null detection is an issue
validate_data_nulls_fail(df) ==
    LET issues == (IF Len(df) = 0 THEN <<"Dataset is empty">> ELSE <<>>)
                  \o (IF has_nulls(df) THEN <<"Null values found">> ELSE <<>>)
    IN  Len(issues) = 0

validate_data(df) ==
    LET issues == IF Len(df) = 0 THEN <<"Dataset is empty">> ELSE <<>>
        report == IF has_nulls(df) THEN <<"Null values found">> ELSE <<>>
    IN  Len(issues) = 0

(***************************************************************************)
(* Inputs.  read_csv labels the rows of a file 0, 1, 2, ...                *)
(***************************************************************************)
DataFrame(rows) == [k \in 1..Len(rows) |-> rows[k] @@ [index |-> k - 1]]

SeqsUpTo(S, n) == UNION {[1..m -> S] : m \in 0..n}

\* the first row of the test fixture: 6 min 40 s, 7.00 for 1.5 miles
BaseRow ==
    [tpep_pickup_datetime |-> Str("2019-01-01 00:46:40"),
     tpep_dropoff_datetime |-> Str("2019-01-01 00:53:20"),
     passenger_count |-> Num(1),
     trip_distance |-> Num(150),
     store_and_fwd_flag |-> Str("N"),
     PULocationID |-> Num(151),
     DOLocationID |-> Num(239),
     fare_amount |-> Num(700)]

PickupTexts ==
    {Null, Str("2019-01-01 00:46:40"), Str("2019-01-01 00:53:20"),
     Str("2019-01-01 23:59:30")}

DropoffTexts ==
    {Null, Str("2019-01-01 00:46:40"), Str("2019-01-01 00:47:39"),
     Str("2019-01-01 00:53:20"), Str("2019-01-02 00:46:39")}

TimeRows ==
    {[BaseRow EXCEPT !.tpep_pickup_datetime = p, !.tpep_dropoff_datetime = d] :
        p \in PickupTexts, d \in DropoffTexts}
    \cup {[BaseRow EXCEPT !.tpep_pickup_datetime = Str("not a date")]}

Fares == {Null, Num(-1000), Num(0), Num(1), Num(700)}

Distances == {Null, Num(0), Num(150), Num(200), Num(300)}

MoneyRows ==
    {[BaseRow EXCEPT !.fare_amount = f, !.trip_distance = d] :
        f \in Fares, d \in Distances}
    \cup {[BaseRow EXCEPT !.trip_distance = Num(-150)]}

MissingRows ==
    {[BaseRow EXCEPT !.store_and_fwd_flag = s, !.PULocationID = pu,
                     !.passenger_count = n] :
        s \in {Null, Str("N")}, pu \in {Null, Num(151)}, n \in {Null, Num(1)}}
    \cup {[BaseRow EXCEPT !.DOLocationID = Null]}

UnitRows == TimeRows \cup MoneyRows \cup MissingRows

(***************************************************************************)
(* transform_zone_data: DataFrame.rename(columns=...)                      *)
(***************************************************************************)
\* variant: Zone is renamed to zone
ZoneColumnNames_zone ==
    ("LocationID" :> "location_id") @@ ("Borough" :> "borough") @@
    ("Zone" :> "zone") @@ ("service_zone" :> "service_zone")

ZoneColumnNames ==
    ("LocationID" :> "location_id") @@ ("Borough" :> "borough") @@
    ("Zone" :> "zone_name") @@ ("service_zone" :> "service_zone")

renamed(f) == IF f \in DOMAIN ZoneColumnNames THEN ZoneColumnNames[f] ELSE f

rename(r) ==
    [g \in {renamed(f) : f \in DOMAIN r} |->
        r[CHOOSE f \in DOMAIN r : renamed(f) = g]]

transform_zone_data(df) == Map(rename, df)

(***************************************************************************)
(* The store: the tables zones and trips and the SERIAL sequence behind    *)
(* trips.trip_id.  A table made by CREATE TABLE carries its constraints;   *)
(* to_sql makes an unconstrained table when it finds none.                 *)
(***************************************************************************)
NoTable == [exists |-> FALSE, constrained |-> FALSE, rows |-> <<>>]
EmptyTable == [exists |-> TRUE, constrained |-> TRUE, rows |-> <<>>]

NoTables == [zones |-> NoTable, trips |-> NoTable, trip_id_seq |-> 1]
EmptyTables == [zones |-> EmptyTable, trips |-> EmptyTable, trip_id_seq |-> 1]

\* a value sent to a VARCHAR column is stored as text
to_column(f, c) ==
    IF f \in {"store_and_fwd_flag"} /\ c.kind = "num"
    THEN Str(ToString(c.num)) ELSE c

\* index=False: the row label is not written
without_index(r) == [f \in DOMAIN r \ {"index"} |-> to_column(f, r[f])]

zone_ids(st) == {st.zones.rows[k].location_id : k \in 1..Len(st.zones.rows)}

\* location_id INTEGER PRIMARY KEY: not null, unique
zones_accepted(st, rows) ==
    \/ ~st.zones.constrained
    \/ /\ \A k \in 1..Len(rows) :
             /\ "location_id" \in DOMAIN rows[k]
             /\ ~isnull(rows[k].location_id)
             /\ rows[k].location_id \notin zone_ids(st)
       /\ \A k, m \in 1..Len(rows) :
             k # m => rows[k].location_id # rows[m].location_id

\* variant: the columns are declared without REFERENCES
trips_accepted_unchecked(st, rows) == TRUE

\* "PULocationID" / "DOLocationID" INTEGER REFERENCES zones(location_id)
trips_accepted(st, rows) ==
    \/ ~st.trips.constrained
    \/ \A k \in 1..Len(rows) : \A f \in {"PULocationID", "DOLocationID"} :
           isnull(rows[k][f]) \/ rows[k][f] \in zone_ids(st)

\* DataFrame.to_sql("zones", if_exists="append", index=False), committed
insert_zones(st, df) ==
    [st EXCEPT !.zones = [exists |-> TRUE, constrained |-> @.constrained,
                          rows |-> @.rows \o Map(without_index, df)]]

\* DataFrame.to_sql("trips", if_exists="append", index=False), committed;
\* trip_id comes from the sequence
insert_trips(st, df) ==
    [st EXCEPT !.trips = [exists |-> TRUE, constrained |-> @.constrained,
                          rows |-> @.rows \o
                              [k \in 1..Len(df) |->
                                  without_index(df[k])
                                      @@ [trip_id |-> st.trip_id_seq + k - 1]]],
               !.trip_id_seq = @ + Len(df)]

\* a statement issued to the store
Op(op, lo, n, ok) == [op |-> op, lo |-> lo, n |-> n, ok |-> ok]

(***************************************************************************)
(* The functions called on their own, as the test suite calls them         *)
(***************************************************************************)
InitUnit ==
    /\ \E rows \in SeqsUpTo(UnitRows, MaxUnitRows) :
           trip_file = [exists |-> TRUE, rows |-> DataFrame(rows)]
    /\ zone_file = [exists |-> TRUE, rows |-> <<>>]
    /\ pc = "test"
    /\ error = "none"
    /\ df_trips = <<>>
    /\ df_zones = <<>>
    /\ valid = FALSE
    /\ store = NoTables
    /\ store_before = NoTables
    /\ i = 0
    /\ batch_size = 1
    /\ log = <<>>

UnitTransform ==
    /\ pc = "test"
    /\ pc' = "transform_trip_data"
    /\ IF transform_raises(trip_file.rows)
       THEN error' = "ParserError" /\ UNCHANGED df_trips
       ELSE df_trips' = transform_trip_data(trip_file.rows) /\ UNCHANGED error
    /\ UNCHANGED <<trip_file, zone_file, df_zones, valid, store, store_before,
                   i, batch_size, log>>

UnitValidate ==
    /\ pc = "test"
    /\ pc' = "validate_data"
    /\ valid' = validate_data(trip_file.rows)
    /\ UNCHANGED <<error, trip_file, zone_file, df_trips, df_zones, store,
                   store_before, i, batch_size, log>>

NextUnit == UnitTransform \/ UnitValidate

SpecUnit == InitUnit /\ [][NextUnit]_vars

\* a call of transform_trip_data has returned a DataFrame
Transformed == pc = "transform_trip_data" /\ error = "none"

raw == trip_file.rows

(***************************************************************************)
(* A run of main                                                           *)
(***************************************************************************)
DefaultBatchSize == 10000

BatchSizes == {1, 2, DefaultBatchSize}

PipelineRows ==
    {BaseRow,
     [BaseRow EXCEPT !.PULocationID = Num(246)],
     [BaseRow EXCEPT !.PULocationID = Null, !.store_and_fwd_flag = Null],
     [BaseRow EXCEPT !.fare_amount = Num(-1000)],
     [BaseRow EXCEPT !.tpep_pickup_datetime = Str("not a date")]}

ZoneRow(id, zone) ==
    [LocationID |-> Num(id), Borough |-> Str("Manhattan"),
     Zone |-> Str(zone), service_zone |-> Str("Yellow Zone")]

ZoneFiles ==
    {<<ZoneRow(151, "Central Park"), ZoneRow(239, "Jamaica")>>,
     <<ZoneRow(0, "Unknown"), ZoneRow(151, "Central Park"),
       ZoneRow(239, "Jamaica")>>,
     <<ZoneRow(151, "Central Park"), ZoneRow(151, "Jamaica")>>}

MissingFile == [exists |-> FALSE, rows |-> <<>>]

\* what an earlier run left behind
PreviousRun ==
    insert_trips(
        insert_zones(EmptyTables,
                     transform_zone_data(DataFrame(
                         <<ZoneRow(151, "Central Park"), ZoneRow(239, "Jamaica")>>))),
        transform_trip_data(DataFrame(<<BaseRow>>)))

InitialStores == {NoTables, EmptyTables, PreviousRun}

Init ==
    /\ \/ trip_file = MissingFile
       \/ \E rows \in SeqsUpTo(PipelineRows, MaxTripRows) :
              trip_file = [exists |-> TRUE, rows |-> DataFrame(rows)]
    /\ \/ zone_file = MissingFile
       \/ \E rows \in ZoneFiles :
              zone_file = [exists |-> TRUE, rows |-> DataFrame(rows)]
    /\ store \in InitialStores
    /\ store_before = store
    /\ batch_size \in BatchSizes
    /\ pc = "extract_trips"
    /\ error = "none"
    /\ df_trips = <<>>
    /\ df_zones = <<>>
    /\ valid = FALSE
    /\ i = 0
    /\ log = <<>>

\* variant: the trips are loaded before the zones
StageAfter_trips_first(stage) ==
    CASE stage = "extract_trips" -> "extract_zones"
      [] stage = "extract_zones" -> "transform_trips"
      [] stage = "transform_trips" -> "transform_zones"
      [] stage = "transform_zones" -> "validate"
      [] stage = "validate" -> "connect"
      [] stage = "connect" -> "create_schema"
      [] stage = "create_schema" -> "load_trips"
      [] stage = "load_trips" -> "load_zones"
      [] stage = "load_zones" -> "verify"
      [] stage = "verify" -> "done"

\* variant: the data is validated after the schema was created
StageAfter_validate_late(stage) ==
    CASE stage = "extract_trips" -> "extract_zones"
      [] stage = "extract_zones" -> "transform_trips"
      [] stage = "transform_trips" -> "transform_zones"
      [] stage = "transform_zones" -> "connect"
      [] stage = "connect" -> "create_schema"
      [] stage = "create_schema" -> "validate"
      [] stage = "validate" -> "load_zones"
      [] stage = "load_zones" -> "load_trips"
      [] stage = "load_trips" -> "verify"
      [] stage = "verify" -> "done"

\* the order of the calls in main
StageAfter(stage) ==
    CASE stage = "extract_trips" -> "extract_zones"
      [] stage = "extract_zones" -> "transform_trips"
      [] stage = "transform_trips" -> "transform_zones"
      [] stage = "transform_zones" -> "validate"
      [] stage = "validate" -> "connect"
      [] stage = "connect" -> "create_schema"
      [] stage = "create_schema" -> "load_zones"
      [] stage = "load_zones" -> "load_trips"
      [] stage = "load_trips" -> "verify"
      [] stage = "verify" -> "done"

Running(stage) == pc = stage /\ error = "none"

ExtractTrips ==
    /\ Running("extract_trips")
    /\ IF trip_file.exists
       THEN df_trips' = trip_file.rows /\ pc' = StageAfter(pc) /\ UNCHANGED error
       ELSE error' = "FileNotFoundError" /\ UNCHANGED <<pc, df_trips>>
    /\ UNCHANGED <<trip_file, zone_file, df_zones, valid, store, store_before,
                   i, batch_size, log>>

ExtractZones ==
    /\ Running("extract_zones")
    /\ IF zone_file.exists
       THEN df_zones' = zone_file.rows /\ pc' = StageAfter(pc) /\ UNCHANGED error
       ELSE error' = "FileNotFoundError" /\ UNCHANGED <<pc, df_zones>>
    /\ UNCHANGED <<trip_file, zone_file, df_trips, valid, store, store_before,
                   i, batch_size, log>>

TransformTrips ==
    /\ Running("transform_trips")
    /\ IF transform_raises(df_trips)
       THEN error' = "ParserError" /\ UNCHANGED <<pc, df_trips>>
       ELSE /\ df_trips' = transform_trip_data(df_trips)
            /\ pc' = StageAfter(pc)
            /\ UNCHANGED error
    /\ UNCHANGED <<trip_file, zone_file, df_zones, valid, store, store_before,
                   i, batch_size, log>>

TransformZones ==
    /\ Running("transform_zones")
    /\ df_zones' = transform_zone_data(df_zones)
    /\ pc' = StageAfter(pc)
    /\ UNCHANGED <<error, trip_file, zone_file, df_trips, valid, store,
                   store_before, i, batch_size, log>>

\* variant: the result of validate_data is not acted on
Validate_no_gate ==
    /\ Running("validate")
    /\ valid' = validate_data(df_trips)
    /\ pc' = StageAfter(pc)
    /\ UNCHANGED <<error, trip_file, zone_file, df_trips, df_zones, store,
                   store_before, i, batch_size, log>>

Validate ==
    /\ Running("validate")
    /\ valid' = validate_data(df_trips)
    /\ IF valid'
       THEN pc' = StageAfter(pc) /\ UNCHANGED error
       ELSE error' = "ValueError" /\ UNCHANGED pc
    /\ UNCHANGED <<trip_file, zone_file, df_trips, df_zones, store,
                   store_before, i, batch_size, log>>

\* with engine.connect() as conn
Connect ==
    /\ Running("connect")
    /\ \E reachable \in BOOLEAN :
          /\ log' = Append(log, Op("connect", 0, 0, reachable))
          /\ IF reachable
             THEN pc' = StageAfter(pc) /\ UNCHANGED error
             ELSE error' = "OperationalError" /\ UNCHANGED pc
    /\ UNCHANGED <<trip_file, zone_file, df_trips, df_zones, valid, store,
                   store_before, i, batch_size>>

\* DROP TABLE IF EXISTS t CASCADE: the table goes with its rows; with trips
\* goes the sequence it owns, with zones go the foreign keys that reference it
drop_table(st, t) ==
    IF t = "trips"
    THEN [st EXCEPT !.trips = NoTable, !.trip_id_seq = 1]
    ELSE [st EXCEPT !.zones = NoTable, !.trips.constrained = FALSE]

\* CREATE TABLE fails on a table that exists; trips needs zones to reference
can_create(st, t) == ~st[t].exists /\ (t = "trips" => st.zones.exists)

create_table(st, t) ==
    IF t = "trips"
    THEN [st EXCEPT !.trips = EmptyTable, !.trip_id_seq = 1]
    ELSE [st EXCEPT !.zones = EmptyTable]

\* the store after the two DROPs and the first commit
dropped_tables(st) == drop_table(drop_table(st, "trips"), "zones")

\* variant: no DROP, and CREATE TABLE IF NOT EXISTS
create_schema_if_not_exists(st) ==
    LET z == IF st.zones.exists THEN st ELSE create_table(st, "zones")
        t == IF z.trips.exists THEN z ELSE create_table(z, "trips")
    IN  [ok |-> TRUE, store |-> t]

\* variant: trips is not dropped and is created only when absent
create_schema_keep_trips(st) ==
    LET dropped == drop_table(st, "zones")
        z == create_table(dropped, "zones")
        t == IF z.trips.exists THEN z ELSE create_table(z, "trips")
    IN  [ok |-> TRUE, store |-> t]

\* the statements of create_schema when the connection holds: whether the
\* CREATEs succeed, and the store they leave
create_schema(st) ==
    LET dropped == dropped_tables(st)
        z == create_table(dropped, "zones")
        t == create_table(z, "trips")
    IN  IF can_create(dropped, "zones") /\ can_create(z, "trips")
        THEN [ok |-> TRUE, store |-> t]
        ELSE [ok |-> FALSE, store |-> dropped]

\* DDL is transactional: a failure before the first commit leaves the store as
\* it was, a failure between the commits leaves it as the DROPs left it
CreateSchema ==
    /\ Running("create_schema")
    /\ \E outcome \in {"ok", "connect", "drop", "create"} :
          LET res == create_schema(store)
              done == outcome = "ok" /\ res.ok
          IN  /\ log' = log \o
                    CASE outcome = "connect" -> <<Op("connect", 0, 0, FALSE)>>
                      [] outcome = "drop" ->
                            <<Op("connect", 0, 0, TRUE), Op("drop", 0, 0, FALSE)>>
                      [] outcome \in {"create", "ok"} ->
                            <<Op("connect", 0, 0, TRUE), Op("drop", 0, 0, TRUE),
                              Op("create", 0, 0, done)>>
              /\ store' = CASE outcome \in {"connect", "drop"} -> store
                            [] outcome = "create" -> dropped_tables(store)
                            [] outcome = "ok" -> res.store
              /\ IF done
                 THEN pc' = StageAfter(pc) /\ UNCHANGED error
                 ELSE /\ error' = IF outcome = "ok" THEN "ProgrammingError"
                                  ELSE "OperationalError"
                      /\ UNCHANGED pc
    /\ UNCHANGED <<trip_file, zone_file, df_trips, df_zones, valid,
                   store_before, i, batch_size>>

LoadZones ==
    /\ Running("load_zones")
    /\ \E reachable \in BOOLEAN :
          LET ok == reachable /\ zones_accepted(store, Map(without_index, df_zones))
          IN  /\ log' = Append(log, Op("insert_zones", 0, Len(df_zones), ok))
              /\ IF ok
                 THEN /\ store' = insert_zones(store, df_zones)
                      /\ pc' = StageAfter(pc)
                      /\ UNCHANGED error
                 ELSE /\ error' = IF reachable THEN "IntegrityError"
                                  ELSE "OperationalError"
                      /\ UNCHANGED <<pc, store>>
    /\ UNCHANGED <<trip_file, zone_file, df_trips, df_zones, valid,
                   store_before, i, batch_size>>

Min(a, b) == IF a <= b THEN a ELSE b

\* variant: the slice includes its end position
iloc_inclusive(df, lo, hi) == SubSeq(df, lo + 1, Min(hi + 1, Len(df)))

\* df_trips.iloc[i : i + batch_size]
iloc(df, lo, hi) == SubSeq(df, lo + 1, Min(hi, Len(df)))

\* variant: a failed batch is reported and the loop goes on
LoadTripsBatch_skip_failed ==
    /\ Running("load_trips")
    /\ i < Len(df_trips)
    /\ \E reachable \in BOOLEAN :
          LET batch == iloc(df_trips, i, i + batch_size)
              ok == reachable /\ trips_accepted(store, Map(without_index, batch))
          IN  /\ log' = Append(log, Op("insert_trips", i, Len(batch), ok))
              /\ store' = IF ok THEN insert_trips(store, batch) ELSE store
              /\ i' = i + batch_size
              /\ UNCHANGED <<pc, error>>
    /\ UNCHANGED <<trip_file, zone_file, df_trips, df_zones, valid,
                   store_before, batch_size>>

\* one pass of the loop of load_trips; the write of a batch is one transaction
LoadTripsBatch ==
    /\ Running("load_trips")
    /\ i < Len(df_trips)
    /\ \E reachable \in BOOLEAN :
          LET batch == iloc(df_trips, i, i + batch_size)
              ok == reachable /\ trips_accepted(store, Map(without_index, batch))
          IN  /\ log' = Append(log, Op("insert_trips", i, Len(batch), ok))
              /\ IF ok
                 THEN /\ store' = insert_trips(store, batch)
                      /\ i' = i + batch_size
                      /\ UNCHANGED <<pc, error>>
                 ELSE /\ error' = IF reachable THEN "IntegrityError"
                                  ELSE "OperationalError"
                      /\ UNCHANGED <<pc, store, i>>
    /\ UNCHANGED <<trip_file, zone_file, df_trips, df_zones, valid,
                   store_before, batch_size>>

\* the loop of load_trips is exhausted
LoadTripsReturn ==
    /\ Running("load_trips")
    /\ i >= Len(df_trips)
    /\ pc' = StageAfter(pc)
    /\ UNCHANGED <<error, trip_file, zone_file, df_trips, df_zones, valid,
                   store, store_before, i, batch_size, log>>

\* variant: a failed verification removes what was loaded
Verify_cleanup_on_failure ==
    /\ Running("verify")
    /\ \E reachable \in BOOLEAN :
          /\ log' = Append(log, Op("select", 0, 0, reachable))
          /\ IF reachable
             THEN pc' = StageAfter(pc) /\ UNCHANGED <<error, store>>
             ELSE /\ error' = "OperationalError"
                  /\ store' = [store EXCEPT !.zones.rows = <<>>,
                                            !.trips.rows = <<>>]
                  /\ UNCHANGED pc
    /\ UNCHANGED <<trip_file, zone_file, df_trips, df_zones, valid,
                   store_before, i, batch_size>>

\* three SELECTs; AVG over no rows is NULL, which the report cannot format
Verify ==
    /\ Running("verify")
    /\ \E reachable \in BOOLEAN :
          LET failure ==
                  IF ~reachable THEN "OperationalError"
                  ELSE IF ~store.zones.exists \/ ~store.trips.exists
                       THEN "ProgrammingError"
                  ELSE IF Len(store.trips.rows) = 0 THEN "TypeError"
                  ELSE "none"
          IN  /\ log' = Append(log, Op("select", 0, 0,
                                      failure \in {"none", "TypeError"}))
              /\ IF failure = "none"
                 THEN pc' = StageAfter(pc) /\ UNCHANGED error
                 ELSE error' = failure /\ UNCHANGED pc
    /\ UNCHANGED <<trip_file, zone_file, df_trips, df_zones, valid, store,
                   store_before, i, batch_size>>

Next ==
    \/ ExtractTrips
    \/ ExtractZones
    \/ TransformTrips
    \/ TransformZones
    \/ Validate
    \/ Connect
    \/ CreateSchema
    \/ LoadZones
    \/ LoadTripsBatch
    \/ LoadTripsReturn
    \/ Verify

Spec == Init /\ [][Next]_vars

(***************************************************************************)
(* Properties of transform_trip_data and validate_data (SpecUnit)          *)
(***************************************************************************)
\* the raw row a transformed row came from, found by its row label
RawOf(r) == raw[r.index + 1]

Labels(df) == [k \in 1..Len(df) |-> df[k].index]

Columns == DOMAIN BaseRow

\* C1: every row of the output of transform_trip_data has pickup <= dropoff,
\* fare_amount > 0, trip_distance > 0 and no null field.
C1_PostTransformInvariant ==
    Transformed =>
        \A k \in 1..Len(df_trips) :
            LET r == df_trips[k]
            IN  /\ r.tpep_pickup_datetime.kind = "ts"
                /\ r.tpep_dropoff_datetime.kind = "ts"
                /\ r.tpep_pickup_datetime.num <= r.tpep_dropoff_datetime.num
                /\ r.fare_amount.kind = "num" /\ r.fare_amount.num > 0
                /\ r.trip_distance.kind = "num" /\ r.trip_distance.num > 0
                /\ \A f \in DOMAIN r \ {"index"} : r[f].kind # "null"

\* a row with a missing flag and a missing zone id survived, next to a dropped row
C1_Witness ==
    /\ Transformed
    /\ Len(raw) = 2 /\ Len(df_trips) = 1
    /\ isnull(RawOf(df_trips[1]).store_and_fwd_flag)
    /\ isnull(RawOf(df_trips[1]).PULocationID)

\* the three drop conditions as the claim words them; a comparison with a
\* missing value is false
DroppedAsClaimed(r) ==
    LET c == convert_datetimes(r)
    IN  \/ /\ c.tpep_pickup_datetime.kind = "ts"
           /\ c.tpep_dropoff_datetime.kind = "ts"
           /\ c.tpep_pickup_datetime.num > c.tpep_dropoff_datetime.num
        \/ (r.fare_amount.kind = "num" /\ r.fare_amount.num <= 0)
        \/ (r.trip_distance.kind = "num" /\ r.trip_distance.num <= 0)

KeptAsClaimed(r) == ~DroppedAsClaimed(r)

MissingFilterField(r) ==
    \/ isnull(r.tpep_pickup_datetime) \/ isnull(r.tpep_dropoff_datetime)
    \/ isnull(r.fare_amount) \/ isnull(r.trip_distance)

KeptAmended(r) == ~DroppedAsClaimed(r) /\ ~MissingFilterField(r)

\* C2 as claimed: a row is dropped iff pickup > dropoff or fare_amount <= 0 or
\* trip_distance <= 0; all other rows survive once, in input order.
C2_ExactFilterAsClaimed ==
    Transformed => Labels(df_trips) = Labels(SelectSeq(raw, KeptAsClaimed))

\* C2 amended: a row is dropped iff pickup > dropoff, or fare_amount <= 0, or
\* trip_distance <= 0, or one of these four fields is missing; every other row
\* (pickup = dropoff included) survives exactly once, in input order.
C2_ExactFilter ==
    Transformed => Labels(df_trips) = Labels(SelectSeq(raw, KeptAmended))

\* the first row is dropped, the second has pickup = dropoff and survives
C2_Witness ==
    /\ Transformed
    /\ Len(raw) = 2 /\ Len(df_trips) = 1
    /\ df_trips[1].index = 1
    /\ df_trips[1].tpep_pickup_datetime = df_trips[1].tpep_dropoff_datetime

\* C6: validate_data is false for an empty collection and true for every
\* non-empty one, with or without nulls.
C6_ValidateIffNonEmpty ==
    pc = "validate_data" => (valid <=> Len(raw) > 0)

\* a collection with a null passed validation
C6_Witness == pc = "validate_data" /\ valid /\ has_nulls(raw)

\* C7: trip_duration_minutes is floor(seconds between pickup and dropoff / 60),
\* so it is >= 0.
C7_DurationIsFloor ==
    Transformed =>
        \A k \in 1..Len(df_trips) :
            LET r == df_trips[k]
                secs == r.tpep_dropoff_datetime.num - r.tpep_pickup_datetime.num
                m == r.trip_duration_minutes
            IN  /\ m.kind = "num"
                /\ m.num >= 0
                /\ 60 * m.num <= secs
                /\ secs < 60 * m.num + 60

\* a trip of 59 seconds is kept with duration 0
C7_Witness ==
    /\ Transformed
    /\ \E k \in 1..Len(df_trips) :
          /\ df_trips[k].trip_duration_minutes = Num(0)
          /\ df_trips[k].tpep_dropoff_datetime.num
                 - df_trips[k].tpep_pickup_datetime.num = 59

Abs(n) == IF n >= 0 THEN n ELSE -n

\* C8: cost_per_mile is fare_amount / trip_distance rounded to 2 decimals (the
\* hundredth nearest to the quotient), and the divisor is always > 0.
C8_CostPerMileRounded ==
    Transformed =>
        \A k \in 1..Len(df_trips) :
            LET r == df_trips[k]
                c == r.cost_per_mile
            IN  /\ r.trip_distance.kind = "num" /\ r.trip_distance.num > 0
                /\ c.kind = "num"
                /\ 2 * Abs(c.num * r.trip_distance.num - 100 * r.fare_amount.num)
                       <= r.trip_distance.num

\* 7.00 / 1.5 gives 4.67, and a row with a missing distance was removed
C8_Witness ==
    /\ Transformed
    /\ \E k \in 1..Len(df_trips) :
          /\ df_trips[k].fare_amount = Num(700)
          /\ df_trips[k].trip_distance = Num(150)
          /\ df_trips[k].cost_per_mile = Num(467)
    /\ \E k \in 1..Len(raw) : isnull(raw[k].trip_distance)

\* C9 as claimed: cost_per_mile > 0 in every output row.
C9_CostPerMilePositiveAsClaimed ==
    Transformed =>
        \A k \in 1..Len(df_trips) : df_trips[k].cost_per_mile.num > 0

\* C9 amended: cost_per_mile >= 0 in every output row, and > 0 whenever
\* fare_amount / trip_distance > 0.005.
C9_CostPerMileNonNegative ==
    Transformed =>
        \A k \in 1..Len(df_trips) :
            LET r == df_trips[k]
            IN  /\ r.cost_per_mile.kind = "num"
                /\ r.cost_per_mile.num >= 0
                /\ (200 * r.fare_amount.num > r.trip_distance.num
                       => r.cost_per_mile.num > 0)

\* 0.01 / 3.0 rounds to 0.00 and 0.01 / 1.5 to 0.01
C9_Witness ==
    /\ Transformed
    /\ \E k \in 1..Len(df_trips) : df_trips[k].cost_per_mile = Num(0)
    /\ \E k \in 1..Len(df_trips) :
          /\ df_trips[k].fare_amount = Num(1)
          /\ df_trips[k].cost_per_mile = Num(1)

\* columns the schema declares as character data
StringColumns == {"store_and_fwd_flag"}

\* C10: a missing value becomes 0 in a numeric column and "" in a string
\* column; a value that is present is left as it is.
C10_TypeAppropriateFill ==
    Transformed =>
        \A k \in 1..Len(df_trips) : \A f \in Columns :
            LET before == convert_datetimes(RawOf(df_trips[k]))[f]
                after == df_trips[k][f]
            IN  IF isnull(before)
                THEN after = (IF f \in StringColumns THEN Str("") ELSE Num(0))
                ELSE after = before

(***************************************************************************)
(* Properties of a run (Spec)                                              *)
(***************************************************************************)
without_trip_id(r) == [f \in DOMAIN r \ {"trip_id"} |-> r[f]]

Writes == {"drop", "create", "insert_zones", "insert_trips"}

\* C3: when the write of a trip batch fails, the batches before it are in the
\* store and no row of the failed batch is, nothing is written after it, it
\* is not tried again, and the failure leaves load_trips.
C3_PartialFailure ==
    \A j \in 1..Len(log) :
        (log[j].op = "insert_trips" /\ ~log[j].ok) =>
            /\ j = Len(log)
            /\ \A m \in 1..(j - 1) :
                   log[m].op = "insert_trips" => log[m].ok /\ log[m].lo < log[j].lo
            /\ pc = "load_trips"
            /\ error \in {"IntegrityError", "OperationalError"}
            /\ Map(without_trip_id, store.trips.rows)
                   = Map(without_index, SubSeq(df_trips, 1, log[j].lo))

\* the second batch was rejected by the store after the first was committed
C3_Witness ==
    /\ error = "IntegrityError"
    /\ pc = "load_trips"
    /\ i > 0
    /\ Len(store.trips.rows) = i
    /\ Len(df_trips) > i + 1

\* C4: no trip batch is written before the zone write has committed, and the
\* zones are written only after create_schema has completed.
C4_LoadOrdering ==
    /\ \A j \in 1..Len(log) :
          /\ log[j].op = "insert_trips" =>
                 \E m \in 1..(j - 1) : log[m].op = "insert_zones" /\ log[m].ok
          /\ log[j].op = "insert_zones" =>
                 \E m \in 1..(j - 1) : log[m].op = "create" /\ log[m].ok
    /\ pc = "load_trips" => store.zones.rows = Map(without_index, df_zones)

\* a trip batch has been written
C4_Witness ==
    /\ pc = "load_trips"
    /\ \E j \in 1..Len(log) : log[j].op = "insert_trips" /\ log[j].ok

\* C5: when validation or the connection test fails, the run ends with an
\* error, nothing was dropped, created or inserted, and the store is as it
\* was before the run.
C5_PreLoadFailure ==
    /\ (pc \in {"validate", "connect"} /\ error # "none") =>
           /\ store = store_before
           /\ \A j \in 1..Len(log) : log[j].op \notin Writes
    /\ \A j \in 1..Len(log) :
           log[j].op \in Writes =>
               /\ valid
               /\ \E m \in 1..(j - 1) : log[m].op = "connect" /\ log[m].ok

\* validation failed on a store that held rows
C5_Witness ==
    /\ pc = "validate"
    /\ error = "ValueError"
    /\ Len(store_before.trips.rows) > 0
    /\ store = store_before

IsTripWrite(e) == e.op = "insert_trips"

TripWrites == SelectSeq(log, IsTripWrite)

Ceil(n, b) == (n + b - 1) \div b

\* load_trips has returned
TripsLoaded == pc \in {"verify", "done"}

\* C11: a successful load_trips of N rows with batch size b issues ceil(N / b)
\* writes; write j carries the rows at positions (j-1)*b .. min(j*b, N)-1, at
\* most b of them, and every row is stored once, in input order.
C11_BatchPartition ==
    TripsLoaded =>
        LET N == Len(df_trips)
            b == batch_size
        IN  /\ Len(TripWrites) = Ceil(N, b)
            /\ \A j \in 1..Len(TripWrites) :
                  /\ TripWrites[j].ok
                  /\ TripWrites[j].lo = (j - 1) * b
                  /\ TripWrites[j].n = Min(j * b, N) - (j - 1) * b
                  /\ TripWrites[j].n >= 1 /\ TripWrites[j].n <= b
            /\ (b = 1 => Len(TripWrites) = N)
            /\ Map(without_trip_id, store.trips.rows) = Map(without_index, df_trips)

\* three rows were loaded in batches of two: a full batch and a rest of one
C11_Witness ==
    /\ TripsLoaded
    /\ batch_size = 2
    /\ Len(df_trips) = 3
    /\ Len(TripWrites) = 2
    /\ TripWrites[2].n = 1

ZoneRefs == {"PULocationID", "DOLocationID"}

\* the rows of the write recorded in a log entry
BatchOf(e) == SubSeq(df_trips, e.lo + 1, e.lo + e.n)

LoadedZoneIds == {df_zones[k].location_id : k \in 1..Len(df_zones)}

HasAbsentRef(rows) ==
    \E k \in 1..Len(rows) : \E f \in ZoneRefs : rows[k][f] \notin LoadedZoneIds

\* C12: every stored trip row references stored zones by both location ids; a
\* batch with a row that references an absent zone is rejected, and the zones
\* loaded before it stay as they were.
C12_ReferentialIntegrity ==
    /\ \A k \in 1..Len(store.trips.rows) : \A f \in ZoneRefs :
           store.trips.rows[k][f] \in zone_ids(store)
    /\ \A j \in 1..Len(log) :
           (log[j].op = "insert_trips" /\ HasAbsentRef(BatchOf(log[j]))) =>
               /\ ~log[j].ok
               /\ error \in {"IntegrityError", "OperationalError"}
               /\ store.zones.exists
               /\ store.zones.rows = Map(without_index, df_zones)
    /\ (pc = "load_trips" /\ error = "IntegrityError") =>
           HasAbsentRef(BatchOf(log[Len(log)]))

\* a batch that references zone 246 was rejected; the zones are still there
C12_Witness ==
    /\ pc = "load_trips"
    /\ error = "IntegrityError"
    /\ \E k \in 1..Len(BatchOf(log[Len(log)])) :
           BatchOf(log[Len(log)])[k].PULocationID = Num(246)
    /\ Len(store.zones.rows) = 2

\* create_schema has returned and nothing was loaded yet
SchemaCreated == pc = "load_zones" /\ error = "none"

\* C13: whatever the store held, a successful create_schema leaves an empty
\* zones table and an empty trips table, and a second call leaves the same
\* state as the first.
C13_SchemaReset ==
    SchemaCreated =>
        /\ store.zones.exists /\ store.zones.rows = <<>>
        /\ store.trips.exists /\ store.trips.rows = <<>>
        /\ create_schema(store).ok
        /\ create_schema(store).store = store

\* the schema was created over trips rows that referenced zones rows
C13_Witness ==
    /\ SchemaCreated
    /\ Len(store_before.trips.rows) > 0
    /\ Len(store_before.zones.rows) > 0

\* C14: when a run reaches verify_load, zones holds this run's zone rows and
\* trips this run's trip rows, each once and numbered from 1, whatever the
\* store held before; a second run on the same inputs leaves the same data.
C14_FullRefresh ==
    TripsLoaded =>
        /\ store.zones.exists /\ store.trips.exists
        /\ store.zones.rows = Map(without_index, df_zones)
        /\ Map(without_trip_id, store.trips.rows) = Map(without_index, df_trips)
        /\ \A k \in 1..Len(store.trips.rows) : store.trips.rows[k].trip_id = k
        /\ df_zones = transform_zone_data(zone_file.rows)
        /\ df_trips = transform_trip_data(trip_file.rows)

\* a run over a store that held another run's rows reached verify_load
C14_Witness ==
    /\ TripsLoaded
    /\ Len(store_before.trips.rows) = 1
    /\ Len(store.trips.rows) = 2
    /\ Len(store.zones.rows) = 3

StageOrder ==
    <<"extract_trips", "extract_zones", "transform_trips", "transform_zones",
      "validate", "connect", "create_schema", "load_zones", "load_trips",
      "verify", "done">>

Pos(stage) == CHOOSE k \in 1..Len(StageOrder) : StageOrder[k] = stage

Count(op) == Cardinality({j \in 1..Len(log) : log[j].op = op})

\* what has happened in any state of a fail-fast run
FailFastState ==
    /\ pc \in {StageOrder[k] : k \in 1..Len(StageOrder)}
    /\ \A j \in 1..Len(log) : ~log[j].ok => (j = Len(log) /\ error # "none")
    /\ Pos(pc) > Pos("extract_zones") => trip_file.exists /\ zone_file.exists
    /\ Pos(pc) > Pos("transform_trips") => ~transform_raises(trip_file.rows)
    /\ Pos(pc) > Pos("validate") => valid
    /\ \A op \in {"drop", "create", "insert_zones", "select"} : Count(op) <= 1
    /\ Count("connect") <= 2
    /\ Count("insert_trips") <= Len(df_trips)
    /\ pc = "done" =>
          /\ error = "none"
          /\ Count("create") = 1 /\ Count("insert_zones") = 1
          /\ Count("select") = 1
          /\ Len(store.trips.rows) = Len(df_trips)

\* what a step of a fail-fast run may do
FailFastStep ==
    /\ error = "none"
    /\ pc' # pc => (Pos(pc') = Pos(pc) + 1 /\ error' = "none")
    /\ error' # "none" => pc' = pc

\* C15: the stages run once each in the order extract, transform, validate,
\* connect, create schema, load zones, load trips, verify; after a failure
\* nothing more runs and the error stays; "done" is reached only without error.
C15_FailFast == [](FailFastState) /\ [][FailFastStep]_vars

\* a run failed in load_zones after the schema was created
C15_Witness ==
    /\ pc = "load_zones"
    /\ error = "IntegrityError"
    /\ Count("create") = 1
    /\ ~log[Len(log)].ok

\* C16: verify_load changes no row of zones or trips, whether it completes or
\* raises; when it raises, the error leaves it and the run ends with the
\* loaded data in the store.
C16_VerifyReadOnly ==
    [][pc = "verify" =>
          /\ store' = store
          /\ \/ pc' = "done" /\ error' = "none"
             \/ pc' = "verify" /\ error' # "none"]_vars

\* verification failed and the loaded rows are still stored
C16_Witness ==
    /\ pc = "verify"
    /\ error = "OperationalError"
    /\ Len(store.trips.rows) = Len(df_trips)
    /\ Len(store.trips.rows) > 0
    /\ Len(store.zones.rows) > 0

\* transform_zone_data has returned
ZonesTransformed == Pos(pc) > Pos("transform_zones")

\* C17: transform_zone_data renames LocationID, Borough and Zone to
\* location_id, borough and zone_name, keeps service_zone, and changes nothing
\* else: same rows, same order, same values, and the input is as it was.
C17_ZoneRename ==
    ZonesTransformed =>
        /\ Len(df_zones) = Len(zone_file.rows)
        /\ \A k \in 1..Len(df_zones) :
              LET before == zone_file.rows[k]
                  after == df_zones[k]
              IN  /\ DOMAIN before = {"index", "LocationID", "Borough", "Zone",
                                      "service_zone"}
                  /\ DOMAIN after = {"index", "location_id", "borough",
                                     "zone_name", "service_zone"}
                  /\ after.index = before.index
                  /\ after.location_id = before.LocationID
                  /\ after.borough = before.Borough
                  /\ after.zone_name = before.Zone
                  /\ after.service_zone = before.service_zone

\* a zone file of three rows was transformed
C17_Witness ==
    /\ ZonesTransformed
    /\ Len(df_zones) = 3
    /\ df_zones[1].location_id = Num(0)
    /\ df_zones[3].zone_name = Str("Jamaica")

\* the row came from a raw row without a pickup or dropoff zone id
MissingRef(r) == \E f \in ZoneRefs : isnull(RawOf(r)[f])

HasMissingRef(rows) == \E k \in 1..Len(rows) : MissingRef(rows[k])

\* C18: a surviving row whose pickup or dropoff zone id was missing carries the
\* id 0 after the transform; the write of a batch with such a row fails as a
\* whole unless a zone with location_id 0 was loaded.
C18_MissingZoneIdBecomesZero ==
    /\ Pos(pc) > Pos("transform_trips") =>
          \A k \in 1..Len(df_trips) : \A f \in ZoneRefs :
              isnull(RawOf(df_trips[k])[f]) => df_trips[k][f] = Num(0)
    /\ \A j \in 1..Len(log) :
          (log[j].op = "insert_trips" /\ HasMissingRef(BatchOf(log[j]))) =>
              /\ Num(0) \notin LoadedZoneIds =>
                    /\ ~log[j].ok
                    /\ error \in {"IntegrityError", "OperationalError"}
                    /\ Len(store.trips.rows) = log[j].lo
              /\ \/ log[j].ok
                 \/ error = "OperationalError"
                 \/ HasAbsentRef(BatchOf(log[j]))

\* a batch of a valid row and a row without pickup zone was rejected as a whole
C18_Witness ==
    /\ pc = "load_trips"
    /\ error = "IntegrityError"
    /\ Num(0) \notin LoadedZoneIds
    /\ Len(BatchOf(log[Len(log)])) = 2
    /\ MissingRef(BatchOf(log[Len(log)])[2])
    /\ BatchOf(log[Len(log)])[1].PULocationID = Num(151)
    /\ store.trips.rows = <<>>

====
